---- MODULE Spec2Model ----
(***************************************************************************)
(* Model of the ingest / normalise / persist / query pipeline of           *)
(* data_loader.py (MF Analyzer).                                           *)
(*                                                                         *)
(* Text is modelled as a sequence of one-character strings.  SQL NULL /    *)
(* pandas NaN is the value NullVal, which SQLite orders before every       *)
(* number.  Categories (Sub_Category text) are numbered so that ORDER BY   *)
(* over them is defined.                                                   *)
(***************************************************************************)
EXTENDS Integers, Sequences, FiniteSets, TLC

VARIABLES
    raw, once, twice, npc,        \* Column Normaliser: header text and its cleanings
    env,                          \* the spreadsheets on disk; whether I/O may fail
    form,                         \* the filter entries and the ranking combobox
    clock,                        \* wall clock, in seconds
    dbExists, tableExists, store, \* mf_data.db: file, table, committed rows
    openConns,                    \* connections opened and not closed
    category_list,                \* values of category_filter_combobox
    loads,                        \* history: the successful appends (time, size)
    last                          \* the handler that just completed and its outcome

vars == <<raw, once, twice, npc, env, form, clock, dbExists, tableExists, store,
          openConns, category_list, loads, last>>

normVars == <<raw, once, twice, npc>>
appVars  == <<env, form, clock, dbExists, tableExists, store, openConns,
              category_list, loads, last>>

----------------------------------------------------------------------------
(* Bounds *)
MaxHeaderLen == 4
MaxClock     == 60      \* the clock is not advanced past this second
MaxLoads     == 2       \* successful appends per run
MaxLeaks     == 1       \* connections that may be left open per run
MaxPartial   == 1       \* rows inserted before an insert error strikes
MaxCatChoice == 3       \* combobox entries the user picks from

----------------------------------------------------------------------------
(* Column Normaliser: df.columns.str.replace(r'[^A-Za-z0-9_]+', '_')       *)
(*                      .str.replace(r'_+', '_').str.strip('_')            *)

WordChars == {"a", "Z", "7", "_"}
Alphabet  == {"a", "7", "_", " ", "("}
IsWordChar(c) == c \in WordChars

\* the text left after a leading run of characters outside [A-Za-z0-9_]
RECURSIVE DropNonWord(_)
DropNonWord(s) ==
    IF s = <<>> THEN <<>>
    ELSE IF ~IsWordChar(Head(s)) THEN DropNonWord(Tail(s)) ELSE s

\* the text left after a leading run of underscores
RECURSIVE DropUnderscores(_)
DropUnderscores(s) ==
    IF s = <<>> THEN <<>>
    ELSE IF Head(s) = "_" THEN DropUnderscores(Tail(s)) ELSE s

\* str.replace(r'[^A-Za-z0-9_]+', '_', regex=True)
RECURSIVE ReplaceNonWordRuns(_)
ReplaceNonWordRuns(s) ==
    IF s = <<>> THEN <<>>
    ELSE IF IsWordChar(Head(s)) THEN <<Head(s)>> \o ReplaceNonWordRuns(Tail(s))
    ELSE <<"_">> \o ReplaceNonWordRuns(DropNonWord(s))

\* str.replace(r'_+', '_', regex=True)
RECURSIVE CollapseUnderscores(_)
CollapseUnderscores(s) ==
    IF s = <<>> THEN <<>>
    ELSE IF Head(s) = "_" THEN <<"_">> \o CollapseUnderscores(DropUnderscores(s))
    ELSE <<Head(s)>> \o CollapseUnderscores(Tail(s))

Reverse(s) == [i \in 1..Len(s) |-> s[Len(s) + 1 - i]]

\* str.strip('_')
StripUnderscores(s) ==
    Reverse(DropUnderscores(Reverse(DropUnderscores(s))))

\* a plausible slip: stripping before the replacements instead of after
normalize_strip_first(x) ==
    CollapseUnderscores(ReplaceNonWordRuns(StripUnderscores(x)))

normalize(x) == StripUnderscores(CollapseUnderscores(ReplaceNonWordRuns(x)))

RECURSIVE SeqsUpTo(_, _)
SeqsUpTo(S, n) ==
    IF n = 0 THEN {<<>>}
    ELSE LET shorter == SeqsUpTo(S, n - 1)
         IN  shorter \cup {Append(s, c) : s \in {t \in shorter : Len(t) = n - 1}, c \in S}

Headers == SeqsUpTo(Alphabet, MaxHeaderLen)

InitNorm ==
    /\ raw \in Headers
    /\ once = <<>> /\ twice = <<>> /\ npc = "raw"

\* load_mutual_fund_data_from_excel cleans the header of the sheet it reads
CleanColumns ==
    /\ npc = "raw"
    /\ once' = normalize(raw)
    /\ npc' = "once"
    /\ UNCHANGED <<raw, twice>>

\* the cleaned name is itself the header of a later sheet
CleanColumnsAgain ==
    /\ npc = "once"
    /\ twice' = normalize(once)
    /\ npc' = "twice"
    /\ UNCHANGED <<raw, once>>

----------------------------------------------------------------------------
(* Values *)

NullVal       == -1      \* SQL NULL / NaN in a numeric or category column
NullTag       == <<>>    \* SQL NULL in Date_Loaded (MAX over an empty table)
AllCategories == 0       \* the combobox entry "All Categories"
EmptyStr      == -2      \* category_filter_var before the combobox is populated
NoneLabel     == -3      \* the entry Tk shows for a None in the values list

RowLimit   == 100
ChartLimit == 15

\* a DataFrame or None, as returned by the loader and the reader
None          == [isNone |-> TRUE,  rows |-> <<>>]
DataFrame(rs) == [isNone |-> FALSE, rows |-> rs]

Min(a, b) == IF a < b THEN a ELSE b

RANKING_KEYS == {"Best 3Y CAGR", "Best 5Y CAGR", "Best 1Y Return",
                 "Lowest Expense Ratio", "Highest Sharpe Ratio",
                 "Highest Alpha", "Largest AUM"}

\* a plausible slip: the expense-ratio ranking given the direction of the others
RANKING_OPTIONS_all_desc(key) ==
    CASE key = "Best 3Y CAGR"         -> <<"CAGR_3Y", "DESC">>
      [] key = "Best 5Y CAGR"         -> <<"CAGR_5Y", "DESC">>
      [] key = "Best 1Y Return"       -> <<"Absolute_Returns_1Y", "DESC">>
      [] key = "Lowest Expense Ratio" -> <<"Expense_Ratio", "DESC">>
      [] key = "Highest Sharpe Ratio" -> <<"Sharpe_Ratio", "DESC">>
      [] key = "Highest Alpha"        -> <<"Alpha", "DESC">>
      [] key = "Largest AUM"          -> <<"AUM", "DESC">>

RANKING_OPTIONS(key) ==
    CASE key = "Best 3Y CAGR"         -> <<"CAGR_3Y", "DESC">>
      [] key = "Best 5Y CAGR"         -> <<"CAGR_5Y", "DESC">>
      [] key = "Best 1Y Return"       -> <<"Absolute_Returns_1Y", "DESC">>
      [] key = "Lowest Expense Ratio" -> <<"Expense_Ratio", "ASC">>
      [] key = "Highest Sharpe Ratio" -> <<"Sharpe_Ratio", "DESC">>
      [] key = "Highest Alpha"        -> <<"Alpha", "DESC">>
      [] key = "Largest AUM"          -> <<"AUM", "DESC">>

----------------------------------------------------------------------------
(* Snapshot Tagger: datetime.now().strftime("%Y-%m-%d %H:%M:%S").  The      *)
(* model keeps the two least significant fields, minutes and seconds, each  *)
(* zero-padded to two digits, most significant first.                       *)

\* a plausible slip: a format with the least significant field first
strftime_seconds_first(t) ==
    <<(t % 60) \div 10, (t % 60) % 10, (t \div 60) \div 10, (t \div 60) % 10>>

strftime(t) ==
    <<(t \div 60) \div 10, (t \div 60) % 10, (t % 60) \div 10, (t % 60) % 10>>

\* SQLite compares TEXT values bytewise, left to right
RECURSIVE TextLess(_, _)
TextLess(a, b) ==
    IF b = <<>> THEN FALSE
    ELSE IF a = <<>> THEN TRUE
    ELSE IF Head(a) # Head(b) THEN Head(a) < Head(b)
    ELSE TextLess(Tail(a), Tail(b))

----------------------------------------------------------------------------
(* Spreadsheets the user can select *)

MkRow(name, cat, aum, exp) ==
    [Name |-> name, Sub_Category |-> cat, AUM |-> aum, NAV |-> 10 + (name % 3),
     Expense_Ratio |-> exp, CAGR_3Y |-> (name * 7) % 5, CAGR_5Y |-> (name * 3) % 4,
     Absolute_Returns_1Y |-> (name * 5) % 6, Sharpe_Ratio |-> name % 2,
     Alpha |-> (name + 1) % 3]

CatA == 1
CatB == 2
CatC == 3

SheetSnap1 == <<MkRow(1, CatA, 50, 1), MkRow(2, CatA, 150, 2)>>
SheetSnap2 == <<MkRow(3, CatA, 60, 2), MkRow(4, CatA, 140, 1)>>
SheetCats  == [i \in 1..16 |->
                 MkRow(10 + i, IF i <= 3 THEN CatA ELSE IF i <= 13 THEN CatB ELSE CatC,
                       40 + 10 * (i % 3), i % 4)]
\* more categories than the chart shows, two of them twice, and missing values
SheetMany  == [i \in 1..(ChartLimit + 5) |->
                 MkRow(30 + i,
                       IF i <= ChartLimit + 2 THEN i
                       ELSE IF i = ChartLimit + 5 THEN NullVal
                       ELSE i - (ChartLimit + 2),
                       IF i % 7 = 0 THEN NullVal ELSE 40 + 30 * (i % 5),
                       IF i % 6 = 0 THEN NullVal ELSE i % 4)]
\* more rows than a ranked query returns
SheetBig   == [i \in 1..(RowLimit + 1) |->
                 MkRow(100 + i, 1 + (i % (ChartLimit + 2)),
                       IF i % 11 = 0 THEN NullVal ELSE 50 + 30 * (i % 5),
                       IF i % 9 = 0 THEN NullVal ELSE i % 4)]

ExcelFiles == {"", "missing.xlsx", "corrupt.xlsx", "empty.xlsx", "snap1.xlsx",
               "snap2.xlsx", "cats.xlsx", "many.xlsx", "big.xlsx"}

FileExists(f) == f \notin {"", "missing.xlsx"}

\* pd.read_excel: the data rows of the sheet
read_excel(f) ==
    CASE f = "empty.xlsx" -> <<>>
      [] f = "snap1.xlsx" -> SheetSnap1
      [] f = "snap2.xlsx" -> SheetSnap2
      [] f = "cats.xlsx"  -> SheetCats
      [] f = "many.xlsx"  -> SheetMany
      [] f = "big.xlsx"   -> SheetBig

Tagged(r, tag) ==
    [c \in DOMAIN r \cup {"Date_Loaded"} |-> IF c = "Date_Loaded" THEN tag ELSE r[c]]

\* load_mutual_fund_data_from_excel: None, or the rows each stamped with load_time
load_mutual_fund_data_from_excel(file_path, now) ==
    IF ~FileExists(file_path) THEN None
    ELSE IF file_path = "corrupt.xlsx" THEN None
    ELSE LET df        == read_excel(file_path)
             load_time == strftime(now)
         IN  DataFrame([i \in 1..Len(df) |-> Tagged(df[i], load_time)])

----------------------------------------------------------------------------
(* The durable store: the file mf_data.db with its one table mutual_funds.  *)
(* db = [exists, table, rows]: the file exists, the table exists, and the   *)
(* committed rows in rowid order.                                           *)

\* a plausible slip: a connection opened in autocommit mode
connect_autocommit(db_path) == [autocommit |-> TRUE, pending |-> <<>>]

\* sqlite3.connect: a connection with an implicit transaction per write
connect(db_path) == [autocommit |-> FALSE, pending |-> <<>>]

\* a row written through conn: durable at once only in autocommit mode
Written(conn, db, rs) ==
    IF conn.autocommit
    THEN [conn |-> conn, db |-> [db EXCEPT !.rows = @ \o rs]]
    ELSE [conn |-> [conn EXCEPT !.pending = @ \o rs], db |-> db]

\* a plausible slip: if_exists='replace', which drops the table first
to_sql_replace(conn, db, df, fault, k) ==
    IF fault = "create" THEN [ok |-> FALSE, conn |-> conn, db |-> db]
    ELSE LET db1 == [db EXCEPT !.table = TRUE, !.rows = <<>>]
             n   == IF fault = "insert" THEN Min(k, Len(df) - 1) ELSE Len(df)
             w   == Written(conn, db1, SubSeq(df, 1, n))
         IN  [ok |-> fault # "insert", conn |-> w.conn, db |-> w.db]

\* df.to_sql(tbl_name, conn, if_exists='append', index=False): creates the
\* table when it is missing, then inserts the rows; an error may strike
\* before the table is created or after k rows have been inserted
to_sql(conn, db, df, fault, k) ==
    IF fault = "create" THEN [ok |-> FALSE, conn |-> conn, db |-> db]
    ELSE LET db1 == [db EXCEPT !.table = TRUE]
             n   == IF fault = "insert" THEN Min(k, Len(df) - 1) ELSE Len(df)
             w   == Written(conn, db1, SubSeq(df, 1, n))
         IN  [ok |-> fault # "insert", conn |-> w.conn, db |-> w.db]

\* conn.commit(): the pending rows become durable
commit(conn, db) ==
    [conn |-> [conn EXCEPT !.pending = <<>>],
     db   |-> [db EXCEPT !.rows = @ \o conn.pending]]

\* save_data_to_sqlite: ret is "True", "False" or "raised" (an exception left
\* the function); leaked counts the connection it left open
save_data_to_sqlite(df, db, fault, k, hfault) ==
    IF df.isNone \/ df.rows = <<>>
    THEN [ret |-> "False", db |-> db, leaked |-> 0,
          status |-> "No data provided to save."]
    ELSE IF fault = "connect"
    THEN \* conn is still None in the handler
         IF hfault = "notify"
         THEN [ret |-> "raised", db |-> db, leaked |-> 0, status |-> "showerror failed"]
         ELSE [ret |-> "False", db |-> db, leaked |-> 0,
               status |-> "Error saving/appending to DB"]
    ELSE LET conn == connect(db)
             db0  == [db EXCEPT !.exists = TRUE]
             w    == to_sql(conn, db0, df.rows, fault, k)
         IN  IF w.ok /\ fault # "commit"
             THEN [ret |-> "True", db |-> commit(w.conn, w.db).db, leaked |-> 0,
                   status |-> "Successfully appended data"]
             ELSE \* except Exception: showerror, status, rollback, close
                  IF hfault = "notify"
                  THEN [ret |-> "raised", db |-> w.db, leaked |-> 1,
                        status |-> "showerror failed"]
                  ELSE IF hfault = "rollback"
                  THEN [ret |-> "raised", db |-> w.db, leaked |-> 1,
                        status |-> "Error saving/appending to DB"]
                  ELSE [ret |-> "False", db |-> w.db, leaked |-> 0,
                        status |-> "Error saving/appending to DB"]

----------------------------------------------------------------------------
(* SQL evaluation.  A query is a record                                     *)
(*   [select, latest, conds, order, limit]                                  *)
(* select: "rows" | "max_date" | "counts" | "distinct"                      *)
(* latest: the scope  Date_Loaded = (SELECT MAX(Date_Loaded) FROM table)    *)
(* conds : the AND-ed comparisons, each [col, op, ph, lit]; ph means the    *)
(*         right-hand side is a '?' placeholder, otherwise the literal lit  *)
(* order : <<column, direction>>, limit: the LIMIT                          *)

Placeholder(col, op) == [col |-> col, op |-> op, ph |-> TRUE,  lit |-> 0]
Literal(col, op, v)  == [col |-> col, op |-> op, ph |-> FALSE, lit |-> v]

IsNull(col, v) == IF col = "Date_Loaded" THEN v = NullTag ELSE v = NullVal

\* MAX(Date_Loaded) over the whole table, by text comparison
MaxDate(rows) ==
    IF rows = <<>> THEN NullTag
    ELSE LET tags == {rows[i].Date_Loaded : i \in 1..Len(rows)}
         IN  CHOOSE m \in tags : \A o \in tags : ~TextLess(m, o)

NumPlaceholders(conds) == Cardinality({i \in 1..Len(conds) : conds[i].ph})

\* the value the i-th comparison is made against: the next bound parameter
\* for a placeholder, the literal otherwise
BoundValue(conds, params, i) ==
    IF conds[i].ph
    THEN params[Cardinality({j \in 1..i : conds[j].ph})]
    ELSE conds[i].lit

\* a comparison with NULL on the left is never true; text compares as text
Compare(col, x, op, v) ==
    IF IsNull(col, x) THEN FALSE
    ELSE IF col = "Date_Loaded"
    THEN CASE op = "="  -> x = v
           [] op = ">=" -> ~TextLess(x, v)
           [] op = "<=" -> ~TextLess(v, x)
    ELSE CASE op = "="  -> x = v
           [] op = ">=" -> x >= v
           [] op = "<=" -> x <= v

Matches(r, query, params, latestTag) ==
    /\ query.latest => r.Date_Loaded = latestTag
    /\ \A i \in 1..Len(query.conds) :
          Compare(query.conds[i].col, r[query.conds[i].col], query.conds[i].op,
                  BoundValue(query.conds, params, i))

RECURSIVE Ascending(_)
Ascending(S) ==
    IF S = {} THEN <<>>
    ELSE LET m == CHOOSE x \in S : \A y \in S : x <= y
         IN  <<m>> \o Ascending(S \ {m})

RECURSIVE Concat(_)
Concat(ss) == IF ss = <<>> THEN <<>> ELSE Head(ss) \o Concat(Tail(ss))

\* ORDER BY col dir: NULL sorts before every value; ties keep rowid order
OrderBy(rows, col, dir) ==
    LET asc  == Ascending({rows[i][col] : i \in 1..Len(rows)})
        keys == IF dir = "ASC" THEN asc ELSE Reverse(asc)
    IN  Concat([j \in 1..Len(keys) |-> SelectSeq(rows, LAMBDA r : r[col] = keys[j])])

Limit(rows, n) == SubSeq(rows, 1, Min(n, Len(rows)))

\* pd.read_sql_query(query, conn, params): the result table
read_sql_query(query, params, rows) ==
    LET latestTag == MaxDate(rows)
        hits      == SelectSeq(rows, LAMBDA r : Matches(r, query, params, latestTag))
        cats      == Ascending({hits[i].Sub_Category : i \in 1..Len(hits)})
    IN  CASE query.select = "rows" ->
               Limit(OrderBy(hits, query.order[1], query.order[2]), query.limit)
          [] query.select = "max_date" ->
               <<[MaxDate |-> latestTag]>>
          [] query.select = "counts" ->
               Limit(OrderBy([j \in 1..Len(cats) |->
                                [Sub_Category |-> cats[j],
                                 Count |-> Len(SelectSeq(hits,
                                             LAMBDA r : r.Sub_Category = cats[j]))]],
                             query.order[1], query.order[2]),
                     query.limit)
          [] query.select = "distinct" ->
               [j \in 1..Len(cats) |-> [Sub_Category |-> cats[j]]]

\* a plausible slip: an empty table instead of None when the file is missing
query_data_from_sqlite_empty(db, query, params, qfault) ==
    IF ~db.exists
    THEN [df |-> DataFrame(<<>>), cause |-> "missing", leaked |-> 0,
          status |-> "Error: Database file not found."]
    ELSE IF qfault # "none" \/ ~db.table
              \/ NumPlaceholders(query.conds) # Len(params)
    THEN [df |-> None, cause |-> "exec", leaked |-> 0,
          status |-> "Error querying DB"]
    ELSE [df |-> DataFrame(read_sql_query(query, params, db.rows)),
          cause |-> "none", leaked |-> 0, status |-> ""]

\* query_data_from_sqlite: the DataFrame, or None when the file is missing or
\* when connecting or executing raises (qfault "exec", a missing table, a
\* wrong number of bindings); both paths close the connection they opened
query_data_from_sqlite(db, query, params, qfault) ==
    IF ~db.exists
    THEN [df |-> None, cause |-> "missing", leaked |-> 0,
          status |-> "Error: Database file not found."]
    ELSE IF qfault # "none" \/ ~db.table
              \/ NumPlaceholders(query.conds) # Len(params)
    THEN [df |-> None, cause |-> "exec", leaked |-> 0,
          status |-> "Error querying DB"]
    ELSE [df |-> DataFrame(read_sql_query(query, params, db.rows)),
          cause |-> "none", leaked |-> 0, status |-> ""]

----------------------------------------------------------------------------
(* Query Builder and the handlers of the three buttons *)

Digits == {"0", "1", "2", "3", "4", "5", "6", "7", "8", "9"}

DigitVal(c) ==
    CASE c = "0" -> 0 [] c = "1" -> 1 [] c = "2" -> 2 [] c = "3" -> 3 [] c = "4" -> 4
      [] c = "5" -> 5 [] c = "6" -> 6 [] c = "7" -> 7 [] c = "8" -> 8 [] c = "9" -> 9

\* float(s) raises ValueError
ValueError(s) == \E i \in 1..Len(s) : s[i] \notin Digits

\* float(s) for the decimal numerals the entries hold
RECURSIVE float(_)
float(s) ==
    IF s = <<>> THEN 0 ELSE 10 * float(SubSeq(s, 1, Len(s) - 1)) + DigitVal(s[Len(s)])

\* float(x) if x else None; None is written NullVal
Bound(s) == IF s = <<>> THEN NullVal ELSE float(s)

MinAumInputs == {<<>>, <<"5", "5">>, <<"x">>}
MaxAumInputs == {<<>>, <<"1", "4", "0">>}
MinExpInputs == {<<>>, <<"1">>}
MaxExpInputs == {<<>>, <<"2">>}
RankInputs   == {"", "Lowest Expense Ratio", "Largest AUM"}

\* the entries as constructed: empty filters, the first ranking selected
DefaultForm ==
    [min_aum_var |-> <<>>, max_aum_var |-> <<>>, min_exp_var |-> <<>>,
     max_exp_var |-> <<>>, ranking_criteria_var |-> "Best 3Y CAGR"]

\* the two rankings of opposite direction, with and without a bound
BigForms ==
    {[DefaultForm EXCEPT !.ranking_criteria_var = key, !.min_aum_var = a] :
        key \in {"Lowest Expense Ratio", "Largest AUM"}, a \in {<<>>, <<"5", "5">>}}

\* the entries after the user has filled them in
Forms ==
    [min_aum_var : MinAumInputs, max_aum_var : MaxAumInputs,
     min_exp_var : MinExpInputs, max_exp_var : MaxExpInputs,
     ranking_criteria_var : RankInputs]

SaveFaults    == {"none", "connect", "create", "insert", "commit"}
HandlerFaults == {"none", "notify", "rollback"}
QueryFaults   == {"none", "exec"}

Filter(present, cond, v) ==
    IF present THEN [conds |-> <<cond>>, params |-> <<v>>]
    ELSE [conds |-> <<>>, params |-> <<>>]

\* a plausible slip: the scope to the latest snapshot left out of base_query
BuildRankedQuery_all_snapshots(cat, min_aum, max_aum, min_exp, max_exp, ranking) ==
    LET fs == <<Filter(cat # EmptyStr /\ cat # AllCategories,
                       Placeholder("Sub_Category", "="), cat),
                Filter(min_aum # NullVal, Placeholder("AUM", ">="), min_aum),
                Filter(max_aum # NullVal, Placeholder("AUM", "<="), max_aum),
                Filter(min_exp # NullVal, Placeholder("Expense_Ratio", ">="), min_exp),
                Filter(max_exp # NullVal, Placeholder("Expense_Ratio", "<="), max_exp)>>
    IN  [query  |-> [select |-> "rows", latest |-> FALSE,
                     conds  |-> Concat([i \in 1..5 |-> fs[i].conds]),
                     order  |-> ranking, limit |-> RowLimit],
         params |-> Concat([i \in 1..5 |-> fs[i].params])]

\* a plausible slip: the filter values formatted into the query text
BuildRankedQuery_interpolated(cat, min_aum, max_aum, min_exp, max_exp, ranking) ==
    LET fs == <<Filter(cat # EmptyStr /\ cat # AllCategories,
                       Literal("Sub_Category", "=", cat), cat),
                Filter(min_aum # NullVal, Literal("AUM", ">=", min_aum), min_aum),
                Filter(max_aum # NullVal, Literal("AUM", "<=", max_aum), max_aum),
                Filter(min_exp # NullVal, Literal("Expense_Ratio", ">=", min_exp), min_exp),
                Filter(max_exp # NullVal, Literal("Expense_Ratio", "<=", max_exp), max_exp)>>
    IN  [query  |-> [select |-> "rows", latest |-> TRUE,
                     conds  |-> Concat([i \in 1..5 |-> fs[i].conds]),
                     order  |-> ranking, limit |-> RowLimit],
         params |-> <<>>]

\* display_ranked_data, "Build Query Dynamically": base_query and params
BuildRankedQuery(cat, min_aum, max_aum, min_exp, max_exp, ranking) ==
    LET fs == <<Filter(cat # EmptyStr /\ cat # AllCategories,
                       Placeholder("Sub_Category", "="), cat),
                Filter(min_aum # NullVal, Placeholder("AUM", ">="), min_aum),
                Filter(max_aum # NullVal, Placeholder("AUM", "<="), max_aum),
                Filter(min_exp # NullVal, Placeholder("Expense_Ratio", ">="), min_exp),
                Filter(max_exp # NullVal, Placeholder("Expense_Ratio", "<="), max_exp)>>
    IN  [query  |-> [select |-> "rows", latest |-> TRUE,
                     conds  |-> Concat([i \in 1..5 |-> fs[i].conds]),
                     order  |-> ranking, limit |-> RowLimit],
         params |-> Concat([i \in 1..5 |-> fs[i].params])]

NoQuery == [select |-> "none", latest |-> FALSE, conds |-> <<>>,
            order |-> <<>>, limit |-> 0]

\* the record of a handler's run; every handler fills the fields it uses
NoOp ==
    [op |-> "start", outcome |-> "", ret |-> "", batch |-> <<>>,
     fault |-> "none", hfault |-> "none", before |-> <<>>,
     cat |-> EmptyStr, min_aum |-> NullVal, max_aum |-> NullVal,
     min_exp |-> NullVal, max_exp |-> NullVal,
     query |-> NoQuery, params |-> <<>>, df |-> None, cause |-> "none",
     status |-> "", tag |-> NullTag]

db_file == [exists |-> dbExists, table |-> tableExists, rows |-> store]

SaveFaultsNow    == IF env.unreliable THEN SaveFaults ELSE {"none"}
HandlerFaultsNow == IF env.unreliable THEN HandlerFaults ELSE {"none"}
QueryFaultsNow   == IF env.unreliable THEN QueryFaults ELSE {"none"}

DistinctLatestQuery ==
    [select |-> "distinct", latest |-> TRUE, conds |-> <<>>,
     order |-> <<"Sub_Category", "ASC">>, limit |-> 0]

\* populate_category_filter run against db: the new combobox values
PopulateOn(db, qfault) ==
    LET r == query_data_from_sqlite(db, DistinctLatestQuery, <<>>, qfault)
    IN  IF ~r.df.isNone /\ r.df.rows # <<>>
        THEN <<AllCategories>> \o
             [i \in 1..Len(r.df.rows) |->
                IF r.df.rows[i].Sub_Category = NullVal THEN NoneLabel
                ELSE r.df.rows[i].Sub_Category]
        ELSE <<AllCategories>>

\* root.after(100, populate_category_filter)
populate_category_filter ==
    /\ category_list = <<>>
    /\ \E qfault \in QueryFaultsNow :
         category_list' = PopulateOn(db_file, qfault)
    /\ last' = [NoOp EXCEPT !.op = "populate"]
    /\ UNCHANGED <<env, form, clock, dbExists, tableExists, store, openConns, loads>>

\* process_data: the "Load Excel & Append" button
process_data ==
    \E file \in env.files \cup {""}, fault \in SaveFaultsNow :
    \E k \in IF fault = "insert" THEN 0..MaxPartial ELSE {0},
       hfault \in IF fault = "none" THEN {"none"} ELSE HandlerFaultsNow,
       qfault \in IF fault = "none" THEN QueryFaultsNow ELSE {"none"} :
      LET df == load_mutual_fund_data_from_excel(file, clock)
          s  == save_data_to_sqlite(df, db_file, fault, k, hfault)
          l  == [NoOp EXCEPT !.op = "process"]
      IN  IF file = ""
          THEN /\ last' = [l EXCEPT !.outcome = "missing input"]
               /\ UNCHANGED <<env, form, clock, dbExists, tableExists, store,
                              openConns, category_list, loads>>
          ELSE IF df.isNone
          THEN /\ last' = [l EXCEPT !.outcome = "load failed"]
               /\ UNCHANGED <<env, form, clock, dbExists, tableExists, store,
                              openConns, category_list, loads>>
          ELSE /\ openConns + s.leaked <= MaxLeaks
               /\ s.ret = "True" => Len(loads) < MaxLoads
               /\ dbExists' = s.db.exists
               /\ tableExists' = s.db.table
               /\ store' = s.db.rows
               /\ openConns' = openConns + s.leaked
               /\ loads' = IF s.ret = "True"
                           THEN Append(loads, [time |-> clock, n |-> Len(df.rows)])
                           ELSE loads
               /\ category_list' = IF s.ret = "True" THEN PopulateOn(s.db, qfault)
                                   ELSE category_list
               /\ last' = [l EXCEPT !.outcome = "saved", !.ret = s.ret,
                                    !.batch = df.rows, !.status = s.status,
                                    !.before = store,
                                    !.fault = IF df.rows = <<>> THEN "none" ELSE fault,
                                    !.hfault = hfault, !.tag = strftime(clock)]
               /\ UNCHANGED <<env, form, clock>>

CategoryChoices ==
    IF category_list = <<>> THEN {EmptyStr}
    ELSE {category_list[i] : i \in 1..Min(MaxCatChoice, Len(category_list))}

\* display_ranked_data: the "Show Filtered & Ranked Data" button
display_ranked_data ==
    \E cat \in CategoryChoices, qfault \in QueryFaultsNow :
      LET key == form.ranking_criteria_var
          l   == [NoOp EXCEPT !.op = "display", !.cat = cat]
      IN  /\ UNCHANGED <<env, form, clock, dbExists, tableExists, store, openConns,
                         category_list, loads>>
          /\ IF \E x \in {form.min_aum_var, form.max_aum_var,
                          form.min_exp_var, form.max_exp_var} : ValueError(x)
             THEN last' = [l EXCEPT !.outcome = "input error"]
             ELSE IF key \notin RANKING_KEYS
             THEN last' = [l EXCEPT !.outcome = "no ranking"]
             ELSE LET min_aum == Bound(form.min_aum_var)
                      max_aum == Bound(form.max_aum_var)
                      min_exp == Bound(form.min_exp_var)
                      max_exp == Bound(form.max_exp_var)
                      b == BuildRankedQuery(cat, min_aum, max_aum, min_exp, max_exp,
                                            RANKING_OPTIONS(key))
                      r == query_data_from_sqlite(db_file, b.query, b.params, qfault)
                  IN  last' = [l EXCEPT !.outcome = "queried",
                                 !.min_aum = min_aum, !.max_aum = max_aum,
                                 !.min_exp = min_exp, !.max_exp = max_exp,
                                 !.query = b.query, !.params = b.params,
                                 !.df = r.df, !.cause = r.cause, !.status = r.status]

LatestDateQuery ==
    [select |-> "max_date", latest |-> FALSE, conds |-> <<>>,
     order |-> <<>>, limit |-> 0]

\* a plausible slip: the chart counting every snapshot up to the latest
ChartQuery_all_snapshots ==
    [select |-> "counts", latest |-> FALSE,
     conds |-> <<Placeholder("Date_Loaded", "<=")>>,
     order |-> <<"Count", "DESC">>, limit |-> ChartLimit]

\* show_category_chart, chart_query
ChartQuery ==
    [select |-> "counts", latest |-> FALSE,
     conds |-> <<Placeholder("Date_Loaded", "=")>>,
     order |-> <<"Count", "DESC">>, limit |-> ChartLimit]

\* show_category_chart: the "Show Category Chart" button
show_category_chart ==
    \E qfault1 \in QueryFaultsNow, qfault2 \in QueryFaultsNow :
      LET r1 == query_data_from_sqlite(db_file, LatestDateQuery, <<>>, qfault1)
          ts == r1.df.rows[1].MaxDate
          r2 == query_data_from_sqlite(db_file, ChartQuery, <<ts>>, qfault2)
          l  == [NoOp EXCEPT !.op = "chart"]
      IN  /\ UNCHANGED <<env, form, clock, dbExists, tableExists, store, openConns,
                         category_list, loads>>
          /\ IF r1.df.isNone \/ r1.df.rows = <<>> \/ ts = NullTag
             THEN last' = [l EXCEPT !.outcome = "no latest load time",
                                    !.cause = r1.cause, !.status = r1.status]
             ELSE last' = [l EXCEPT !.outcome = IF r2.df.isNone THEN "query failed"
                                                ELSE IF r2.df.rows = <<>> THEN "no data"
                                                ELSE "charted",
                                    !.tag = ts, !.df = r2.df, !.cause = r2.cause,
                                    !.status = r2.status]

\* a second passes on the wall clock
Tick ==
    /\ clock < MaxClock
    /\ clock' = clock + 1
    /\ UNCHANGED <<env, form, dbExists, tableExists, store, openConns,
                   category_list, loads, last>>

----------------------------------------------------------------------------
(* Specifications *)

InitApp ==
    /\ raw = <<>> /\ once = <<>> /\ twice = <<>> /\ npc = "unused"
    /\ clock = 59    \* 00:59, a second before the minute rolls over
    /\ dbExists = FALSE /\ tableExists = FALSE /\ store = <<>>
    /\ openConns = 0
    /\ category_list = <<>>
    /\ loads = <<>>
    /\ last = NoOp

\* the application as constructed, on a machine where I/O and the GUI may fail
Init ==
    /\ InitApp
    /\ form = DefaultForm
    /\ env = [files |-> {"missing.xlsx", "corrupt.xlsx", "empty.xlsx",
                         "snap1.xlsx", "snap2.xlsx"},
              unreliable |-> TRUE]

Next ==
    \/ populate_category_filter /\ UNCHANGED normVars
    \/ process_data /\ UNCHANGED normVars
    \/ display_ranked_data /\ UNCHANGED normVars
    \/ show_category_chart /\ UNCHANGED normVars
    \/ Tick /\ UNCHANGED normVars

Spec == Init /\ [][Next]_vars

\* the application once the user has filled in the filter entries, on a
\* machine where I/O does not fail
InitQuery ==
    /\ InitApp
    /\ form \in Forms
    /\ env = [files |-> {"snap1.xlsx", "snap2.xlsx", "many.xlsx"},
              unreliable |-> FALSE]

SpecQuery == InitQuery /\ [][Next]_vars

\* the same with a spreadsheet of more rows than a ranked query returns and
\* of more categories than the chart shows
InitBig ==
    /\ InitApp
    /\ form \in BigForms
    /\ env = [files |-> {"cats.xlsx", "big.xlsx"}, unreliable |-> FALSE]

SpecBig == InitBig /\ [][Next]_vars

\* the Column Normaliser on its own, over every header up to MaxHeaderLen
InitHeaders ==
    /\ InitNorm
    /\ form = DefaultForm
    /\ env = [files |-> {}, unreliable |-> FALSE]
    /\ clock = 59    \* 00:59, a second before the minute rolls over
    /\ dbExists = FALSE /\ tableExists = FALSE /\ store = <<>>
    /\ openConns = 0
    /\ category_list = <<>>
    /\ loads = <<>>
    /\ last = NoOp

NextHeaders ==
    \/ CleanColumns /\ UNCHANGED appVars
    \/ CleanColumnsAgain /\ UNCHANGED appVars

SpecHeaders == InitHeaders /\ [][NextHeaders]_vars

----------------------------------------------------------------------------
(* Properties *)

Displayed == last.op = "display" /\ last.outcome = "queried" /\ ~last.df.isNone
Charted   == last.op = "chart" /\ last.outcome = "charted"
Saved     == last.op = "process" /\ last.outcome = "saved" /\ last.batch # <<>>

StoreRows == {store[i] : i \in 1..Len(store)}
Shown     == {last.df.rows[i] : i \in 1..Len(last.df.rows)}

StoreTags == {store[i].Date_Loaded : i \in 1..Len(store)}

\* r belongs to the latest snapshot: no row of the store carries a later tag
InLatest(r) == \A t \in StoreTags : ~TextLess(r.Date_Loaded, t)

\* the rows of the latest snapshot
LatestRows == SelectSeq(store, InLatest)

\* r passes every filter the user supplied
PassesFilters(r) ==
    /\ last.cat \notin {EmptyStr, AllCategories} => r.Sub_Category = last.cat
    /\ last.min_aum # NullVal => (r.AUM # NullVal /\ r.AUM >= last.min_aum)
    /\ last.max_aum # NullVal => (r.AUM # NullVal /\ r.AUM <= last.max_aum)
    /\ last.min_exp # NullVal => (r.Expense_Ratio # NullVal
                                  /\ r.Expense_Ratio >= last.min_exp)
    /\ last.max_exp # NullVal => (r.Expense_Ratio # NullVal
                                  /\ r.Expense_Ratio <= last.max_exp)

\* the scenario of the specification: snapshots with AUM [50,150] and
\* [60,140] in one category, loaded a second apart, queried with minAUM=55
TwoSnapshotScenario ==
    /\ Displayed
    /\ Len(loads) = 2 /\ loads[1].time < loads[2].time
    /\ [i \in 1..Len(store) |-> store[i].AUM] = <<50, 150, 60, 140>>
    /\ last.min_aum = 55 /\ last.max_aum = NullVal
    /\ last.min_exp = NullVal /\ last.max_exp = NullVal

ScopedToLatest ==
    Displayed => \A r \in Shown : r \in StoreRows /\ InLatest(r) /\ PassesFilters(r)

\* C1: the store is append-only: every step of every handler leaves the rows
\* that were in the table in place, unchanged and in order
C1_AppendOnly ==
    [][/\ Len(store) <= Len(store')
       /\ SubSeq(store', 1, Len(store)) = store]_vars

C1_Witness ==
    /\ Len(loads) = 2
    /\ Saved /\ last.ret = "True" /\ last.before # <<>>
    /\ Len(store) = Len(last.before) + Len(last.batch)

\* C2 as stated: every row the ranked query returns is in the latest snapshot
\* and passes every supplied filter, and in the two-snapshot scenario the
\* query with minAUM=55 returns only the 140 row
C2_Original ==
    /\ ScopedToLatest
    /\ TwoSnapshotScenario => {r.AUM : r \in Shown} = {140}

\* C2 amended: every row the ranked query returns is in the latest snapshot
\* and passes every supplied filter, and in the two-snapshot scenario the
\* query with minAUM=55 returns the 60 and the 140 row of the second
\* snapshot and no row of the first
C2_ScopedToLatest ==
    /\ ScopedToLatest
    /\ TwoSnapshotScenario => /\ {r.AUM : r \in Shown} = {60, 140}
                              /\ Len(last.df.rows) = 2

C2_Witness ==
    /\ TwoSnapshotScenario
    /\ \E o \in StoreRows : o.AUM = 150 /\ ~InLatest(o) /\ PassesFilters(o)

SuppliedValues ==
    (IF last.cat \notin {EmptyStr, AllCategories} THEN <<last.cat>> ELSE <<>>)
    \o (IF last.min_aum # NullVal THEN <<last.min_aum>> ELSE <<>>)
    \o (IF last.max_aum # NullVal THEN <<last.max_aum>> ELSE <<>>)
    \o (IF last.min_exp # NullVal THEN <<last.min_exp>> ELSE <<>>)
    \o (IF last.max_exp # NullVal THEN <<last.max_exp>> ELSE <<>>)

\* C4: the built query holds one placeholder per supplied filter and no
\* filter value, and the parameter list holds the supplied values in the
\* order category, min AUM, max AUM, min expense ratio, max expense ratio
C4_Parameterised ==
    (last.op = "display" /\ last.outcome = "queried") =>
      /\ \A i \in 1..Len(last.query.conds) : last.query.conds[i].ph
      /\ Len(last.query.conds) = Len(SuppliedValues)
      /\ last.params = SuppliedValues

C4_Witness ==
    /\ last.op = "display" /\ last.outcome = "queried"
    /\ last.cat \notin {EmptyStr, AllCategories}
    /\ last.min_aum = 55 /\ last.max_aum = 140
    /\ last.min_exp = 1 /\ last.max_exp = 2
    /\ Len(last.params) = 5

NoStore == [exists |-> FALSE, table |-> FALSE, rows |-> <<>>]

ReadFailed == last.op = "display" /\ last.outcome = "queried" /\ last.cause # "none"

\* C5 as stated: a failed read yields no rows, and the result returned for
\* an execution failure differs from the one returned for a missing store
C5_Original ==
    ReadFailed =>
      /\ last.df.rows = <<>>
      /\ last.cause = "exec" =>
           last.df # query_data_from_sqlite(NoStore, last.query, last.params, "none").df

\* C5 amended: the reader returns None, hence no rows, both when the store
\* file is missing and when execution fails; the two cases differ only in
\* the status message it reports
C5_NoneOnFailure ==
    ReadFailed =>
      /\ last.df = None
      /\ last.cause = "missing" <=> ~dbExists
      /\ last.status = IF last.cause = "missing"
                       THEN "Error: Database file not found."
                       ELSE "Error querying DB"

C5_Witness ==
    /\ ReadFailed /\ last.cause = "exec" /\ tableExists /\ store # <<>>

\* C6: no connection is open between two handlers
C6_ConnectionsReleased == openConns = 0

RECURSIVE SumSizes(_)
SumSizes(ls) == IF ls = <<>> THEN 0 ELSE ls[1].n + SumSizes(Tail(ls))

\* C7: every row of a load carries the tag of that load; after two appends
\* to the empty store, the second a later second than the first, the store
\* holds |B1| + |B2| rows and MAX(Date_Loaded) is the tag of the second
C7_TwoAppends ==
    /\ Len(store) = SumSizes(loads)
    /\ \A j \in 1..Len(loads) :
         \A i \in (SumSizes(SubSeq(loads, 1, j - 1)) + 1)..SumSizes(SubSeq(loads, 1, j)) :
            store[i].Date_Loaded = strftime(loads[j].time)
    /\ (Len(loads) = 2 /\ loads[1].time < loads[2].time) =>
         /\ Len(store) = loads[1].n + loads[2].n
         /\ MaxDate(store) = strftime(loads[2].time)
         /\ \A r \in StoreRows : ~TextLess(MaxDate(store), r.Date_Loaded)

C7_Witness ==
    /\ Len(loads) = 2 /\ loads[1].time < loads[2].time
    /\ Saved /\ last.ret = "True"
    /\ loads[1].n > 0 /\ loads[2].n > 0

\* C8: the rows of a ranked query are non-decreasing in Expense_Ratio for
\* "Lowest Expense Ratio" and non-increasing in AUM for "Largest AUM", a
\* missing value counting as the smallest, and are at most 100
C8_RankedOrder ==
    Displayed =>
      LET rows == last.df.rows
      IN  /\ Len(rows) <= RowLimit
          /\ form.ranking_criteria_var = "Lowest Expense Ratio" =>
               \A i \in 1..(Len(rows) - 1) :
                  rows[i].Expense_Ratio <= rows[i + 1].Expense_Ratio
          /\ form.ranking_criteria_var = "Largest AUM" =>
               \A i \in 1..(Len(rows) - 1) : rows[i].AUM >= rows[i + 1].AUM

C8_Witness ==
    /\ Displayed
    /\ form.ranking_criteria_var = "Lowest Expense Ratio"
    /\ Len(last.df.rows) = RowLimit
    /\ Len(LatestRows) > RowLimit
    /\ last.df.rows[1].Expense_Ratio = NullVal
    /\ last.df.rows[RowLimit].Expense_Ratio > 0

CountIn(rs, c) == Cardinality({i \in 1..Len(rs) : rs[i].Sub_Category = c})

\* C9: the chart query returns one (category, count) pair per category of
\* the latest snapshot, the count being the number of latest-snapshot rows
\* of the category, in descending order of count, the 15 largest groups at
\* most; rows of older snapshots are not counted; categories {A:3, B:10, C:3}
\* give B first, then A and C in either order
C9_CategoryCounts ==
    Charted =>
      LET rows   == last.df.rows
          latest == LatestRows
          cats   == {latest[i].Sub_Category : i \in 1..Len(latest)}
          count  == [c \in cats |-> CountIn(latest, c)]
      IN  /\ Len(rows) = Min(ChartLimit, Cardinality(cats))
          /\ \A i \in 1..Len(rows) :
               /\ rows[i].Sub_Category \in cats
               /\ rows[i].Count = count[rows[i].Sub_Category]
          /\ \A i, j \in 1..Len(rows) :
               i < j => /\ rows[i].Count >= rows[j].Count
                        /\ rows[i].Sub_Category # rows[j].Sub_Category
          /\ \A c \in cats :
               (\A i \in 1..Len(rows) : rows[i].Sub_Category # c) =>
                  \A i \in 1..Len(rows) : rows[i].Count >= count[c]
          /\ (/\ cats = {CatA, CatB, CatC}
              /\ count[CatA] = 3 /\ count[CatB] = 10 /\ count[CatC] = 3) =>
                [i \in 1..3 |-> rows[i].Sub_Category]
                   \in {<<CatB, CatA, CatC>>, <<CatB, CatC, CatA>>}

C9_Witness ==
    /\ Charted
    /\ Len(loads) = 2 /\ loads[1].time < loads[2].time
    /\ Len(last.df.rows) = ChartLimit
    /\ Len(LatestRows) < Len(store)
    /\ Cardinality({LatestRows[i].Sub_Category : i \in 1..Len(LatestRows)}) > ChartLimit

\* C10: cleaning a cleaned header leaves it as it is
C10_Idempotent == npc = "twice" => twice = once

C10_Witness == npc = "twice" /\ once # raw /\ Len(once) > 1

====
